---- MODULE Spec2Model ----
(***************************************************************************)
(* Model of airflow/config/read_delta.py: the batch pipeline that reads    *)
(* the activity Delta table from MinIO and two PostgreSQL tables,          *)
(* aggregates the activities per employee, aligns the id_employee types,   *)
(* joins the three datasets and writes the result as a Delta table.  The   *)
(* file defines main twice; the model is of the first, the pipeline        *)
(* (lines 398-494), not of the connection test that follows it.            *)
(*                                                                         *)
(* A DataFrame is a record [cols, idType, rows]: the ordered column names, *)
(* the Spark type of the id_employee column and the rows as a bag (a       *)
(* DataFrame is unordered and may hold duplicate rows).  A stored table    *)
(* adds its format.  SQL NULL is NullId in an id column, NullNum in a      *)
(* numeric column and NullMean in mean_duration.  An id value is written   *)
(* as text in both types: the int 1 is "1", the strings are "1", "01" and  *)
(* "abc"; the column type says which of the two a column holds.            *)
(***************************************************************************)
EXTENDS Integers, Sequences, FiniteSets, Bags, TLC

VARIABLES
    output_bucket,                \* args.output_bucket
    lake,                         \* the Delta table at s3a://<input_bucket>/tables/<table>
    sql_employees,                \* sport_advantages.employees_masked
    sql_validations,              \* sport_advantages.commute_validations
    buckets,                      \* the buckets that exist in MinIO
    storage,                      \* path -> table, the objects the run can write
    storage0,                     \* storage as it was when the run started
    pc,                           \* the statement of main() to execute next
    raised,                       \* the exceptions raised so far, the one propagating last
    faults,                       \* whether the services (MinIO, PostgreSQL, Spark) can fail in this run
    activity_df,
    employee_df,
    validation_df,
    activity_transformed_df,
    employee_join_validation_df,
    final_df,
    calls,                        \* number of save_to_delta calls made
    log,                          \* the writes that succeeded, in order
    environ,                      \* os.environ: the DB_* variables of the process
    attempts                      \* the calls that went to MinIO or PostgreSQL, in order

vars == <<output_bucket, lake, sql_employees, sql_validations, buckets, storage,
          storage0, pc, raised, faults, activity_df, employee_df, validation_df,
          activity_transformed_df, employee_join_validation_df, final_df,
          calls, log, environ, attempts>>

(***************************************************************************)
(* Bounds of the model.                                                    *)
(***************************************************************************)
MaxRows == 2      \* rows of commute_validations and of the activity table (SpecJoin)
MaxAct == 3       \* rows of the activity table (SpecAgg)
MaxCalls == 2     \* save_to_delta calls in a row (SpecSink)

(***************************************************************************)
(* Values.                                                                 *)
(***************************************************************************)
NullId == "<null>"
NullNum == -1
NullMean == <<0, 0>>

Types == {"int", "string"}
IntIds == {"1", "2"}
StringIds == {"1", "01", "abc"}
Durations == {1, 2}
Distances == {7}

IdsOf(t) == IF t = "int" THEN IntIds ELSE StringIds

InputBucket == "delta-tables"
Buckets == {"delta-tables", "results"}
Suffixes == {"connectivity_test", "test_write", "joined_data", "empty_fallback"}
Paths == Buckets \X Suffixes

ActivityCols == <<"id_employee", "activity_duration">>
EmployeeCols == <<"id_employee", "employee_name">>
ValidationCols == <<"id_employee", "commute_distance">>
LegacyCols == <<"id_employee", "legacy">>

NoDF == [cols |-> <<>>, idType |-> "none", rows |-> EmptyBag]
NoTable == [format |-> "none", cols |-> <<>>, idType |-> "none", rows |-> EmptyBag]
NoError == [type |-> "none", at |-> "none", cause |-> "none"]

Table(fmt, df) == [format |-> fmt, cols |-> df.cols, idType |-> df.idType, rows |-> df.rows]
DataFrameOf(t) == [cols |-> t.cols, idType |-> t.idType, rows |-> t.rows]

(***************************************************************************)
(* Bags.                                                                   *)
(***************************************************************************)
Range(s) == {s[i] : i \in DOMAIN s}

RECURSIVE SumFn(_)
SumFn(f) ==
    IF DOMAIN f = {} THEN 0
    ELSE LET x == CHOOSE y \in DOMAIN f : TRUE
         IN  f[x] + SumFn([y \in DOMAIN f \ {x} |-> f[y]])

SeqToBag(s) == [x \in Range(s) |-> Cardinality({i \in DOMAIN s : s[i] = x})]

SeqsUpTo(S, n) == UNION {[1..k -> S] : k \in 0..n}

BagsUpTo(S, n) == {SeqToBag(s) : s \in SeqsUpTo(S, n)}

\* The bag of F(x) for the x of B: withColumn and select keep every row.
BagMap(F(_), B) ==
    [y \in {F(x) : x \in DOMAIN B} |->
        SumFn([x \in {z \in DOMAIN B : F(z) = y} |-> B[x]])]

\* The rows of B that satisfy P.
BagFilter(P(_), B) == [x \in {z \in DOMAIN B : P(z)} |-> B[x]]

(***************************************************************************)
(* Column functions of pyspark.sql.                                        *)
(***************************************************************************)
\* What Spark's (non-ANSI) cast gives for each text: "01" parses to 1, and a
\* text that is no number gives NULL.
ParseInt == [v \in StringIds \cup IntIds |->
                CASE v = "01" -> "1"
                  [] v = "abc" -> NullId
                  [] OTHER -> v]

\* A cast that leaves a text it cannot parse as it is.
cast_keeps_text(v, from, to) ==
    IF v = NullId THEN NullId
    ELSE IF from = to THEN v
    ELSE IF to = "int" /\ ParseInt[v] # NullId THEN ParseInt[v]
    ELSE v

\* Column.cast: the value v of a column of type `from` in the type `to`.
cast(v, from, to) ==
    IF v = NullId THEN NullId
    ELSE IF from = to THEN v
    ELSE IF to = "int" THEN ParseInt[v]
    ELSE v

RECURSIVE GCD(_, _)
GCD(a, b) == IF b = 0 THEN a ELSE GCD(b, a % b)

\* The quotient a / b as a fraction in lowest terms.
Fraction(a, b) == <<a \div GCD(a, b), b \div GCD(a, b)>>

\* count("id_employee") over the rows G of a group: the rows whose
\* id_employee is not NULL.
count(G) == SumFn([r \in {z \in DOMAIN G : z.id_employee # NullId} |-> G[r]])

\* A mean that divides as integers do.
avg_truncates(G) ==
    LET V == BagFilter(LAMBDA r : r.activity_duration # NullNum, G)
        n == SumFn(V)
        total == SumFn([r \in DOMAIN V |-> V[r] * r.activity_duration])
    IN  IF n = 0 THEN NullMean ELSE <<total \div n, 1>>

\* avg("activity_duration") over the rows G of a group: the sum of the
\* values that are not NULL divided by their number, NULL when there is none.
avg(G) ==
    LET V == BagFilter(LAMBDA r : r.activity_duration # NullNum, G)
        n == SumFn(V)
        total == SumFn([r \in DOMAIN V |-> V[r] * r.activity_duration])
    IN  IF n = 0 THEN NullMean ELSE Fraction(total, n)

\* The rows of df whose id_employee is g (NULL is a group of its own).
Group(df, g) == BagFilter(LAMBDA r : r.id_employee = g, df.rows)

Keys(df) == {r.id_employee : r \in DOMAIN df.rows}

AggregatedCols == <<"id_employee", "count_activity", "mean_duration">>

transform_activity_data(df) ==
    [cols |-> AggregatedCols,
     idType |-> df.idType,
     rows |-> SetToBag({[id_employee |-> g,
                         count_activity |-> count(Group(df, g)),
                         mean_duration |-> avg(Group(df, g))] : g \in Keys(df)})]

\* df.withColumn("id_employee", df["id_employee"].cast(t))
withColumnCast(df, t) ==
    [cols |-> df.cols,
     idType |-> t,
     rows |-> BagMap(LAMBDA r : [r EXCEPT !.id_employee = cast(@, df.idType, t)],
                     df.rows)]

\* A reconciliation that forgets the aggregated activities.
ensure_compatible_types_skips_activity(e, v, a) ==
    LET ref_type == e.idType
        v2 == IF v.idType # ref_type THEN withColumnCast(v, ref_type) ELSE v
    IN  <<e, v2, a>>

ensure_compatible_types(e, v, a) ==
    LET ref_type == e.idType
        v2 == IF v.idType # ref_type THEN withColumnCast(v, ref_type) ELSE v
        a2 == IF a.idType # ref_type THEN withColumnCast(a, ref_type) ELSE a
    IN  <<e, v2, a2>>

(***************************************************************************)
(* DataFrame.join(other, "id_employee", how).                              *)
(***************************************************************************)
NullOf(c) ==
    CASE c = "mean_duration" -> NullMean
      [] c \in {"count_activity", "activity_duration", "commute_distance"} -> NullNum
      [] OTHER -> NullId

\* Two rows join when their keys are equal; NULL equals nothing.
Matches(l, r) == l.id_employee # NullId /\ l.id_employee = r.id_employee

OtherCols(df) == SelectSeq(df.cols, LAMBDA c : c # "id_employee")

NullRow(df) == [c \in Range(OtherCols(df)) |-> NullOf(c)]

InnerRows(L, R) ==
    LET Pairs == {p \in (DOMAIN L.rows) \X (DOMAIN R.rows) : Matches(p[1], p[2])}
    IN  [y \in {p[1] @@ p[2] : p \in Pairs} |->
            SumFn([p \in {q \in Pairs : q[1] @@ q[2] = y} |->
                      L.rows[p[1]] * R.rows[p[2]]])]

\* The rows of L with no match in R, extended with NULL for R's columns.
UnmatchedRows(L, R) ==
    LET Alone == {l \in DOMAIN L.rows : \A r \in DOMAIN R.rows : ~Matches(l, r)}
    IN  [y \in {l @@ NullRow(R) : l \in Alone} |->
            SumFn([l \in {z \in Alone : z @@ NullRow(R) = y} |-> L.rows[l]])]

join(L, R, how) ==
    [cols |-> L.cols \o OtherCols(R),
     idType |-> L.idType,
     rows |-> IF how = "left"
              THEN InnerRows(L, R) (+) UnmatchedRows(L, R)
              ELSE InnerRows(L, R)]

(***************************************************************************)
(* Object storage: buckets, and tables at (bucket, suffix).                *)
(***************************************************************************)
\* ensure_bucket_exists: the bucket is there afterwards when boto3 works; a
\* missing credential or an S3 error leaves the buckets as they are.
ensure_bucket_exists(bucket_name, bk, works) ==
    IF works THEN bk \cup {bucket_name} ELSE bk

\* The DataFrame and the path of check_spark_s3_connectivity.
test_df == [cols |-> <<"id", "value">>, idType |-> "none",
            rows |-> SetToBag({[id |-> 1, value |-> "test_data"]})]
test_path == <<"delta-tables", "connectivity_test">>

\* mode("append"): the rows of df are added to those of a table of its schema.
AppendRows(existing, df) ==
    IF existing.format = "delta" /\ existing.cols = df.cols
    THEN [Table("delta", df) EXCEPT !.rows = existing.rows (+) df.rows]
    ELSE Table("delta", df)

\* df.write.mode("overwrite") with overwriteSchema: the path holds df alone.
Overwrite(existing, df) == Table("delta", df)

\* Without overwriteSchema Delta takes an overwrite only of a new path or of
\* a table of the same schema.
Accepts(existing, df) ==
    \/ existing.format = "none"
    \/ /\ existing.format = "delta"
       /\ existing.cols = df.cols
       /\ existing.idType = df.idType

\* df.limit(1): any one row of df, none when df is empty.
Limit1(df) ==
    IF DOMAIN df.rows = {} THEN {df}
    ELSE {[df EXCEPT !.rows = SetToBag({r})] : r \in DOMAIN df.rows}

\* A trial write that goes to the path of the result.
test_output_path_is_sink(output_bucket_name) == <<output_bucket_name, "joined_data">>

test_output_path(output_bucket_name) == <<output_bucket_name, "test_write">>

\* check_spark_s3_connectivity: the parquet probe is written when Spark can
\* write to the bucket; every failure is caught and only printed.
check_spark_s3_connectivity(st, bk, io) ==
    IF io /\ test_path[1] \in bk
    THEN [storage |-> [st EXCEPT ![test_path] = Table("parquet", test_df)],
          written |-> <<[path |-> test_path, kind |-> "probe",
                         table |-> Table("parquet", test_df)]>>]
    ELSE [storage |-> st, written |-> <<>>]

\* save_to_delta(df, bucket, path_suffix) on the storage st and buckets bk.
\* c holds what the environment decides: whether the bucket check works
\* (created), the row limit(1) returns (test), whether the trial write and
\* the write reach the store (testIo, mainIo) and the class of the exception
\* a failed write raises (exc).  The trial write's failure is caught; the
\* write's failure is raised again.
save_to_delta(df, bucket, path_suffix, st, bk, c) ==
    LET bk1 == ensure_bucket_exists(bucket, bk, c.created)
        tpath == test_output_path(bucket)
        testOk == bucket \in bk1 /\ c.testIo /\ Accepts(st[tpath], c.test)
        st1 == IF testOk THEN [st EXCEPT ![tpath] = Table("delta", c.test)] ELSE st
        w1 == IF testOk
              THEN <<[path |-> tpath, kind |-> "test", table |-> st1[tpath]]>>
              ELSE <<>>
        opath == <<bucket, path_suffix>>
        mainOk == bucket \in bk1 /\ c.mainIo
        st2 == IF mainOk THEN [st1 EXCEPT ![opath] = Overwrite(st1[opath], df)] ELSE st1
        w2 == IF mainOk
              THEN <<[path |-> opath, kind |-> "sink", table |-> st2[opath]]>>
              ELSE <<>>
    IN  [ok |-> mainOk,
         buckets |-> bk1,
         storage |-> st2,
         written |-> w1 \o w2,
         exc |-> [type |-> c.exc, at |-> "save",
                  cause |-> IF bucket \in bk1 THEN "io" ELSE "NoSuchBucket"]]

ErrorClasses == {"FileNotFoundError", "Exception"}

\* What a call to a service can do in this run: work, or fail as well.
IoOutcomes == IF faults THEN BOOLEAN ELSE {TRUE}
CallOutcomes == IF faults THEN {"ok"} \cup ErrorClasses ELSE {"ok"}

SaveChoices(df) ==
    [created : IoOutcomes, test : Limit1(df), testIo : IoOutcomes,
     mainIo : IoOutcomes, exc : ErrorClasses]

(***************************************************************************)
(* The environment of the process and the PostgreSQL server.               *)
(***************************************************************************)
\* os.environ.get(key) of a variable that is not set.
None == "<None>"

\* os.environ.get(key, default)
environ_get(env, key, default) == IF env[key] = None THEN default ELSE env[key]

\* "not value" of a string or None.
not(value) == value \in {None, ""}

\* The server the JDBC driver can reach, and the account it accepts.
postgres ==
    [url |-> <<"business-postgres", "5432", "sport_advantages">>,
     user |-> "airflow", password |-> "secret"]

(***************************************************************************)
(* The readers.                                                            *)
(***************************************************************************)
\* read_delta_table: the DataFrame of the table, or FileNotFoundError for
\* every exception of the load or of the count, whatever its cause.
read_delta_table(tbl, bk, io) ==
    IF InputBucket \in bk /\ tbl.format = "delta" /\ io
    THEN [ok |-> TRUE, df |-> DataFrameOf(tbl), exc |-> NoError]
    ELSE [ok |-> FALSE, df |-> NoDF,
          exc |-> [type |-> "FileNotFoundError", at |-> "read_activity",
                   cause |-> IF InputBucket \in bk /\ tbl.format = "delta"
                             THEN "io" ELSE "not_found"]]

\* A read_sql_table that builds the URL without looking at DB_NAME.
read_sql_table_without_db_check(tbl, env, outcome, at) ==
    LET postgres_user == env["DB_USER"]
        postgres_password == env["DB_PASSWORD"]
        url == <<environ_get(env, "DB_HOST", "business-postgres"),
                 environ_get(env, "DB_PORT", "5432"), env["DB_NAME"]>>
        missing == IF not(postgres_user) THEN "DB_USER"
                   ELSE IF not(postgres_password) THEN "DB_PASSWORD"
                   ELSE "none"
        connected == /\ url = postgres.url
                     /\ postgres_user = postgres.user
                     /\ postgres_password = postgres.password
    IN  IF missing # "none"
        THEN [ok |-> FALSE, df |-> NoDF, jdbc |-> <<>>,
              exc |-> [type |-> "ValueError", at |-> at, cause |-> missing]]
        ELSE IF connected /\ outcome = "ok"
        THEN [ok |-> TRUE, df |-> DataFrameOf(tbl), exc |-> NoError,
              jdbc |-> <<[kind |-> "jdbc", target |-> url]>>]
        ELSE [ok |-> FALSE, df |-> NoDF,
              jdbc |-> <<[kind |-> "jdbc", target |-> url]>>,
              exc |-> [type |-> IF connected THEN outcome ELSE "Exception",
                       at |-> at, cause |-> "io"]]

\* read_sql_table: ValueError for the first of DB_USER, DB_PASSWORD and
\* DB_NAME that is not set or empty, before the URL is built; otherwise the
\* DataFrame of the table read over JDBC.  An exception of the JDBC read (a
\* server that is not at the URL, a refused account, a failed query) is
\* printed and raised again as it is.  jdbc holds the read that was sent.
read_sql_table(tbl, env, outcome, at) ==
    LET postgres_user == env["DB_USER"]
        postgres_password == env["DB_PASSWORD"]
        postgres_db == env["DB_NAME"]
        url == <<environ_get(env, "DB_HOST", "business-postgres"),
                 environ_get(env, "DB_PORT", "5432"), postgres_db>>
        missing == IF not(postgres_user) THEN "DB_USER"
                   ELSE IF not(postgres_password) THEN "DB_PASSWORD"
                   ELSE IF not(postgres_db) THEN "DB_NAME"
                   ELSE "none"
        connected == /\ url = postgres.url
                     /\ postgres_user = postgres.user
                     /\ postgres_password = postgres.password
    IN  IF missing # "none"
        THEN [ok |-> FALSE, df |-> NoDF, jdbc |-> <<>>,
              exc |-> [type |-> "ValueError", at |-> at, cause |-> missing]]
        ELSE IF connected /\ outcome = "ok"
        THEN [ok |-> TRUE, df |-> DataFrameOf(tbl), exc |-> NoError,
              jdbc |-> <<[kind |-> "jdbc", target |-> url]>>]
        ELSE [ok |-> FALSE, df |-> NoDF,
              jdbc |-> <<[kind |-> "jdbc", target |-> url]>>,
              exc |-> [type |-> IF connected THEN outcome ELSE "Exception",
                       at |-> at, cause |-> "io"]]

(***************************************************************************)
(* main(): one action per statement that reads, transforms or writes.      *)
(***************************************************************************)
sources == <<output_bucket, lake, sql_employees, sql_validations, storage0, faults,
             environ>>
frames == <<activity_df, employee_df, validation_df, activity_transformed_df,
            employee_join_validation_df, final_df>>
store == <<buckets, storage, calls, log>>

\* The except clauses of main's try block: FileNotFoundError from any
\* statement of the block goes to the fallback, every other exception is
\* printed and raised again.
except_clause(type) == IF type = "FileNotFoundError" THEN "fallback" ELSE "failed"

Raise(exc) ==
    /\ raised' = Append(raised, exc)
    /\ pc' = except_clause(exc.type)

\* ensure_bucket_exists for the input and the output bucket, and the two
\* verify_minio_access calls, which only read.
Startup ==
    /\ pc = "start"
    /\ \E w1, w2 \in IoOutcomes :
          buckets' = ensure_bucket_exists(output_bucket,
                         ensure_bucket_exists(InputBucket, buckets, w1), w2)
    /\ attempts' = attempts \o <<[kind |-> "bucket", target |-> <<InputBucket>>],
                                  [kind |-> "bucket", target |-> <<output_bucket>>]>>
    /\ pc' = "connectivity"
    /\ UNCHANGED <<sources, frames, storage, calls, log, raised>>

CheckConnectivity ==
    /\ pc = "connectivity"
    /\ \E io \in IoOutcomes :
          LET r == check_spark_s3_connectivity(storage, buckets, io)
          IN  /\ storage' = r.storage
              /\ log' = log \o r.written
    /\ attempts' = Append(attempts, [kind |-> "write", target |-> test_path])
    /\ pc' = "read_activity"
    /\ UNCHANGED <<sources, frames, buckets, calls, raised>>

ReadActivity ==
    /\ pc = "read_activity"
    /\ \E io \in IoOutcomes :
          LET r == read_delta_table(lake, buckets, io)
          IN  IF r.ok
              THEN /\ activity_df' = r.df
                   /\ pc' = "read_employees"
                   /\ UNCHANGED raised
              ELSE /\ Raise(r.exc)
                   /\ UNCHANGED activity_df
    /\ attempts' = Append(attempts, [kind |-> "delta",
                                     target |-> <<InputBucket, "tables">>])
    /\ UNCHANGED <<sources, store, employee_df, validation_df,
                   activity_transformed_df, employee_join_validation_df, final_df>>

ReadEmployees ==
    /\ pc = "read_employees"
    /\ \E outcome \in CallOutcomes :
          LET r == read_sql_table(sql_employees, environ, outcome, "read_employees")
          IN  /\ attempts' = attempts \o r.jdbc
              /\ IF r.ok
                 THEN /\ employee_df' = r.df
                      /\ pc' = "read_validations"
                      /\ UNCHANGED raised
                 ELSE /\ Raise(r.exc)
                      /\ UNCHANGED employee_df
    /\ UNCHANGED <<sources, store, activity_df, validation_df,
                   activity_transformed_df, employee_join_validation_df, final_df>>

ReadValidations ==
    /\ pc = "read_validations"
    /\ \E outcome \in CallOutcomes :
          LET r == read_sql_table(sql_validations, environ, outcome, "read_validations")
          IN  /\ attempts' = attempts \o r.jdbc
              /\ IF r.ok
                 THEN /\ validation_df' = r.df
                      /\ pc' = "transform"
                      /\ UNCHANGED raised
                 ELSE /\ Raise(r.exc)
                      /\ UNCHANGED validation_df
    /\ UNCHANGED <<sources, store, activity_df, employee_df,
                   activity_transformed_df, employee_join_validation_df, final_df>>

\* transform_activity_data, then show(5), which runs the Spark job.
Transform ==
    /\ pc = "transform"
    /\ \E outcome \in CallOutcomes :
          IF outcome = "ok"
          THEN /\ activity_transformed_df' = transform_activity_data(activity_df)
               /\ pc' = "reconcile"
               /\ UNCHANGED raised
          ELSE /\ Raise([type |-> outcome, at |-> "transform", cause |-> "job"])
               /\ UNCHANGED activity_transformed_df
    /\ UNCHANGED <<sources, store, attempts, activity_df, employee_df, validation_df,
                   employee_join_validation_df, final_df>>

Reconcile ==
    /\ pc = "reconcile"
    /\ LET r == ensure_compatible_types(employee_df, validation_df,
                                        activity_transformed_df)
       IN  /\ employee_df' = r[1]
           /\ validation_df' = r[2]
           /\ activity_transformed_df' = r[3]
    /\ pc' = "join1"
    /\ UNCHANGED <<sources, store, attempts, raised, activity_df,
                   employee_join_validation_df, final_df>>

\* employee_df.join(validation_df, "id_employee"), then show(5).
JoinValidations ==
    /\ pc = "join1"
    /\ \E outcome \in CallOutcomes :
          IF outcome = "ok"
          THEN /\ employee_join_validation_df' = join(employee_df, validation_df, "inner")
               /\ pc' = "join2"
               /\ UNCHANGED raised
          ELSE /\ Raise([type |-> outcome, at |-> "join1", cause |-> "job"])
               /\ UNCHANGED employee_join_validation_df
    /\ UNCHANGED <<sources, store, attempts, activity_df, employee_df, validation_df,
                   activity_transformed_df, final_df>>

\* employee_join_validation_df.join(activity_transformed_df, "id_employee",
\* "left"), then show(5).
JoinActivity ==
    /\ pc = "join2"
    /\ \E outcome \in CallOutcomes :
          IF outcome = "ok"
          THEN /\ final_df' = join(employee_join_validation_df,
                                   activity_transformed_df, "left")
               /\ pc' = "save"
               /\ UNCHANGED raised
          ELSE /\ Raise([type |-> outcome, at |-> "join2", cause |-> "job"])
               /\ UNCHANGED final_df
    /\ UNCHANGED <<sources, store, attempts, activity_df, employee_df, validation_df,
                   activity_transformed_df, employee_join_validation_df>>

\* A call save_to_delta(final_df, args.output_bucket, path_suffix) in the
\* try block.
SaveTo(path_suffix) ==
    /\ pc = "save"
    /\ \E c \in SaveChoices(final_df) :
          LET r == save_to_delta(final_df, output_bucket, path_suffix,
                                 storage, buckets, c)
          IN  /\ buckets' = r.buckets
              /\ storage' = r.storage
              /\ log' = log \o r.written
              /\ IF r.ok
                 THEN pc' = "done" /\ UNCHANGED raised
                 ELSE Raise(r.exc)
    /\ calls' = calls + 1
    /\ attempts' = attempts \o
          <<[kind |-> "bucket", target |-> <<output_bucket>>],
            [kind |-> "write", target |-> test_output_path(output_bucket)],
            [kind |-> "write", target |-> <<output_bucket, path_suffix>>]>>
    /\ UNCHANGED <<sources, frames>>

\* save_to_delta(final_df, args.output_bucket)
Save == SaveTo("joined_data")

\* The FileNotFoundError clause: SparkSession has no createStructType, so
\* building empty_df raises AttributeError before save_to_delta is called,
\* and an exception raised in an except clause leaves the try statement.
Fallback ==
    /\ pc = "fallback"
    /\ raised' = Append(raised, [type |-> "AttributeError", at |-> "fallback",
                                 cause |-> "createStructType"])
    /\ pc' = "failed"
    /\ UNCHANGED <<sources, frames, store, attempts>>

Next ==
    \/ Startup
    \/ CheckConnectivity
    \/ ReadActivity
    \/ ReadEmployees
    \/ ReadValidations
    \/ Transform
    \/ Reconcile
    \/ JoinValidations
    \/ JoinActivity
    \/ Save
    \/ Fallback

\* The caller of save_to_delta calls it once more with the same arguments.
SaveAgain ==
    /\ pc \in {"done", "failed", "fallback"}
    /\ calls < MaxCalls
    /\ pc' = "save"
    /\ raised' = <<>>
    /\ attempts' = <<>>
    /\ UNCHANGED <<sources, frames, store>>

SinkSuffixes == {"joined_data", "empty_fallback"}

SaveAny == \E path_suffix \in SinkSuffixes : SaveTo(path_suffix)

NextSink ==
    \/ SaveAny
    \/ SaveAgain

(***************************************************************************)
(* Initial states.                                                         *)
(***************************************************************************)
EmployeeRow(v) == [id_employee |-> v, employee_name |-> "ann"]

\* employees_masked has one row per employee.
EmployeeTables(t) ==
    {Table("jdbc", [cols |-> EmployeeCols, idType |-> t,
                    rows |-> SetToBag({EmployeeRow(v) : v \in S})]) :
        S \in SUBSET IdsOf(t)}

ValidationTables(t, n) ==
    {Table("jdbc", [cols |-> ValidationCols, idType |-> t, rows |-> B]) :
        B \in BagsUpTo([id_employee : IdsOf(t), commute_distance : Distances], n)}

ActivityTables(t, durations, n) ==
    {Table("delta", [cols |-> ActivityCols, idType |-> t, rows |-> B]) :
        B \in BagsUpTo([id_employee : IdsOf(t) \cup {NullId},
                        activity_duration : durations], n)}

Pristine == [p \in Paths |-> NoTable]

LegacyTable ==
    Table("delta", [cols |-> LegacyCols, idType |-> "string",
                    rows |-> SetToBag({[id_employee |-> "9", legacy |-> "x"]})])

\* Every path holds what an older job left there.
Stale == [p \in Paths |-> LegacyTable]

InitRun ==
    /\ storage0 = storage
    /\ pc = "start"
    /\ raised = <<>>
    /\ activity_df = NoDF
    /\ employee_df = NoDF
    /\ validation_df = NoDF
    /\ activity_transformed_df = NoDF
    /\ employee_join_validation_df = NoDF
    /\ final_df = NoDF
    /\ calls = 0
    /\ log = <<>>
    /\ attempts = <<>>

SampleEmployees ==
    Table("jdbc", [cols |-> EmployeeCols, idType |-> "int",
                   rows |-> SetToBag({EmployeeRow("1"), EmployeeRow("2")})])

SampleValidations ==
    Table("jdbc", [cols |-> ValidationCols, idType |-> "string",
                   rows |-> SeqToBag(<<[id_employee |-> "1", commute_distance |-> 7],
                                       [id_employee |-> "1", commute_distance |-> 7],
                                       [id_employee |-> "abc", commute_distance |-> 7]>>)])

SampleActivity ==
    Table("delta", [cols |-> ActivityCols, idType |-> "string",
                    rows |-> SeqToBag(<<[id_employee |-> "1", activity_duration |-> 1],
                                        [id_employee |-> "1", activity_duration |-> 2],
                                        [id_employee |-> "01", activity_duration |-> 2]>>)])

\* The deployment sets the five variables to the server's address and account.
Configured ==
    [DB_USER |-> postgres.user, DB_PASSWORD |-> postgres.password,
     DB_HOST |-> postgres.url[1], DB_PORT |-> postgres.url[2],
     DB_NAME |-> postgres.url[3]]

\* The environments of a run: a variable holds nothing, the empty string,
\* the server's value or another one.
Environments ==
    [DB_USER : {None, "", postgres.user},
     DB_PASSWORD : {None, "", postgres.password},
     DB_HOST : {None, "", postgres.url[1], "localhost"},
     DB_PORT : {None, postgres.url[2], "5433"},
     DB_NAME : {None, "", postgres.url[3]}]

\* Runs over every state of the store and with services that can fail, on
\* one sample of the three tables.
Init ==
    /\ output_bucket \in Buckets
    /\ lake \in {NoTable, SampleActivity}
    /\ sql_employees = SampleEmployees
    /\ sql_validations = SampleValidations
    /\ \/ buckets \in SUBSET Buckets /\ storage = Pristine
       \/ buckets = Buckets /\ storage = Stale
    /\ faults = TRUE
    /\ environ = Configured
    /\ InitRun

\* Runs over every content of the three tables (the activity table may be
\* missing), on a new store and with services that work.
InitJoin ==
    /\ output_bucket = "results"
    /\ \E te, tv, ta \in Types :
          /\ sql_employees \in EmployeeTables(te)
          /\ sql_validations \in ValidationTables(tv, MaxRows)
          /\ lake \in ActivityTables(ta, {1}, MaxRows) \cup {NoTable}
    /\ buckets = Buckets
    /\ storage = Pristine
    /\ faults = FALSE
    /\ environ = Configured
    /\ InitRun

\* Runs over every content of the activity table (or none), each employee
\* with one validation.
InitAgg ==
    /\ output_bucket = "results"
    /\ \E te, ta \in Types :
          /\ sql_employees = Table("jdbc", [cols |-> EmployeeCols, idType |-> te,
                                 rows |-> SetToBag({EmployeeRow(v) : v \in IdsOf(te)})])
          /\ sql_validations = Table("jdbc", [cols |-> ValidationCols, idType |-> te,
                                 rows |-> SetToBag([id_employee : IdsOf(te),
                                                    commute_distance : Distances])])
          /\ lake \in ActivityTables(ta, Durations \cup {NullNum}, MaxAct) \cup {NoTable}
    /\ buckets = Buckets
    /\ storage = Pristine
    /\ faults = FALSE
    /\ environ = Configured
    /\ InitRun

\* The DataFrames save_to_delta is called with: joined rows, or no column.
ResultFrames(n) ==
    {[cols |-> EmployeeCols \o OtherCols([cols |-> ValidationCols])
                  \o OtherCols([cols |-> AggregatedCols]),
      idType |-> t, rows |-> B] :
        t \in Types,
        B \in BagsUpTo({EmployeeRow(v) @@ [commute_distance |-> 7] @@ a :
                           v \in IntIds,
                           a \in {[count_activity |-> 1, mean_duration |-> <<2, 1>>],
                                  [count_activity |-> NullNum, mean_duration |-> NullMean]}},
                       n)}
    \cup {NoDF}

\* save_to_delta called on every state of the store.
InitSink ==
    /\ output_bucket \in Buckets
    /\ lake = NoTable
    /\ sql_employees = SampleEmployees
    /\ sql_validations = SampleValidations
    /\ \/ buckets \in SUBSET Buckets /\ storage = Pristine
       \/ buckets = Buckets /\ storage = Stale
    /\ faults = TRUE
    /\ environ = Configured
    /\ storage0 = storage
    /\ pc = "save"
    /\ raised = <<>>
    /\ activity_df = NoDF
    /\ employee_df = NoDF
    /\ validation_df = NoDF
    /\ activity_transformed_df = NoDF
    /\ employee_join_validation_df = NoDF
    /\ final_df \in ResultFrames(MaxRows)
    /\ calls = 0
    /\ log = <<>>
    /\ attempts = <<>>

\* Runs under every environment, on the sample tables and a new store, with
\* services that work or can fail.
InitEnv ==
    /\ output_bucket = "results"
    /\ lake \in {NoTable, SampleActivity}
    /\ sql_employees = SampleEmployees
    /\ sql_validations = SampleValidations
    /\ buckets = Buckets
    /\ storage = Pristine
    /\ faults \in BOOLEAN
    /\ environ \in Environments
    /\ InitRun

Spec == Init /\ [][Next]_vars
SpecEnv == InitEnv /\ [][Next]_vars
SpecJoin == InitJoin /\ [][Next]_vars
SpecAgg == InitAgg /\ [][Next]_vars
SpecSink == InitSink /\ [][NextSink]_vars

(***************************************************************************)
(* Properties.                                                             *)
(***************************************************************************)
\* The stage of the run that the statement at p belongs to.
Stage(p) ==
    CASE p \in {"start", "connectivity"} -> "Start"
      [] p \in {"read_activity", "read_employees", "read_validations"} -> "Reading"
      [] p = "transform" -> "Aggregating"
      [] p = "reconcile" -> "Reconciling"
      [] p \in {"join1", "join2"} -> "Joining"
      [] p = "save" -> "Writing"
      [] p = "fallback" -> "FallbackWriting"
      [] p = "done" -> "Done"
      [] OTHER -> "Failed"

\* The columns named in the FileNotFoundError clause.
columns == <<"id_employee", "employee_name", "commute_distance",
             "count_activity", "mean_duration">>

SinkPath == <<output_bucket, "joined_data">>
FallbackPath == <<output_bucket, "empty_fallback">>

Size(df) == BagCardinality(df.rows)

\* The lakehouse read failed because the table (or its bucket) is not there.
SourceNotFound ==
    /\ raised # <<>>
    /\ raised[1].at = "read_activity"
    /\ raised[1].cause = "not_found"

SinkWrites == {i \in DOMAIN log : log[i].kind = "sink"}

\* C1: a run in which the lakehouse read fails because the table is missing
\* ends without an exception, with a zero-row table of the five fallback
\* columns at <output_bucket>/empty_fallback.
C1_FallbackCompleteness ==
    (pc \in {"done", "failed"} /\ SourceNotFound) =>
        /\ pc = "done"
        /\ storage[FallbackPath].format = "delta"
        /\ Range(storage[FallbackPath].cols) = Range(columns)
        /\ storage[FallbackPath].rows = EmptyBag

\* C2: the lakehouse read raises the not-found error only when the table
\* does not exist; any other failure of that read keeps its class, ends the
\* run Failed and never reaches the fallback.
C2_FailuresDistinguished ==
    \A i \in DOMAIN raised :
        (raised[i].at = "read_activity" /\ raised[i].cause # "not_found") =>
            /\ raised[i].type # "FileNotFoundError"
            /\ pc # "fallback"

\* The texts that are numbers, and so have a value of type int.
IsNumber(v) == v \in {"1", "2", "01"}

\* The value v of a column of type `from` has no value of type `to`.
Unrepresentable(v, from, to) ==
    v # NullId /\ from = "string" /\ to = "int" /\ ~IsNumber(v)

NullRows(df) == BagCardinality(BagFilter(LAMBDA r : r.id_employee = NullId, df.rows))

\* The rows of the table or DataFrame t whose id_employee is NULL once it
\* is in the type `to`.
NullAfterCast(t, to) ==
    BagCardinality(BagFilter(
        LAMBDA r : r.id_employee = NullId
                   \/ Unrepresentable(r.id_employee, t.idType, to), t.rows))

Reconciled == pc \in {"join1", "join2", "save", "done"}

\* C3 (as claimed): a dependent whose id_employee holds a value that the
\* employees' type cannot represent never gets past the reconciliation: the
\* run fails there with TypeCoercionError.
C3_CoercionFails ==
    Reconciled =>
        /\ \A r \in DOMAIN sql_validations.rows :
              ~Unrepresentable(r.id_employee, sql_validations.idType,
                               sql_employees.idType)
        /\ \A r \in DOMAIN activity_df.rows :
              ~Unrepresentable(r.id_employee, activity_df.idType,
                               sql_employees.idType)

\* C3 (amended): the cast of the reconciliation raises nothing; a value the
\* employees' type cannot represent becomes NULL, so the dependent reaches
\* the joins with all its rows, those rows with a NULL id_employee.
C3_CastGivesNull ==
    Reconciled =>
        /\ \A i \in DOMAIN raised : raised[i].at # "reconcile"
        /\ Size(validation_df) = BagCardinality(sql_validations.rows)
        /\ NullRows(validation_df)
              = NullAfterCast(sql_validations, sql_employees.idType)
        /\ Size(activity_transformed_df) = Cardinality(Keys(activity_df))
        /\ NullRows(activity_transformed_df)
              = Cardinality({g \in Keys(activity_df) :
                    g = NullId \/ Unrepresentable(g, activity_df.idType,
                                                  sql_employees.idType)})

C3_Witness ==
    /\ pc = "join1"
    /\ sql_employees.idType = "int"
    /\ \E r \in DOMAIN sql_validations.rows : r.id_employee = "abc"
    /\ NullRows(validation_df) > 0

\* C4: the final DataFrame has as many rows as the inner join of employees
\* and validations, and a row of that join without an aggregate has NULL
\* count_activity and mean_duration.
C4_JoinCardinality ==
    final_df # NoDF =>
        /\ Size(final_df) = Size(employee_join_validation_df)
        /\ \A r \in DOMAIN final_df.rows :
              (\A a \in DOMAIN activity_transformed_df.rows :
                    a.id_employee # r.id_employee)
                 => r.count_activity = NullNum /\ r.mean_duration = NullMean

\* The activity rows of employee E, and the sum of their durations.
RowsOf(E) == BagFilter(LAMBDA r : r.id_employee = E, activity_df.rows)
TotalDuration(E) ==
    SumFn([r \in DOMAIN RowsOf(E) |-> RowsOf(E)[r] * r.activity_duration])
AggregateRows(E) ==
    BagFilter(LAMBDA r : r.id_employee = E, activity_transformed_df.rows)

\* C5: right after the aggregation an employee with N >= 1 activity rows of
\* durations d_1..d_N has exactly one aggregate row, with count_activity = N
\* and mean_duration = (d_1 + ... + d_N) / N, and an employee with no
\* activity row has none.
C5_AggregationCorrect ==
    pc = "reconcile" =>
        \A E \in IntIds \cup StringIds :
            LET N == BagCardinality(RowsOf(E))
            IN  IF N = 0
                THEN AggregateRows(E) = EmptyBag
                ELSE /\ BagCardinality(AggregateRows(E)) = 1
                     /\ \A a \in DOMAIN AggregateRows(E) :
                           /\ a.count_activity = N
                           /\ (\A r \in DOMAIN RowsOf(E) :
                                   r.activity_duration # NullNum)
                                 => /\ a.mean_duration[2] > 0
                                    /\ a.mean_duration[1] * N
                                          = a.mean_duration[2] * TotalDuration(E)

C5_Witness ==
    /\ pc = "reconcile"
    /\ \E E \in IntIds \cup StringIds :
          /\ BagCardinality(RowsOf(E)) = 3
          /\ \A r \in DOMAIN RowsOf(E) : r.activity_duration # NullNum
          /\ \E a \in DOMAIN AggregateRows(E) : a.mean_duration = <<4, 3>>

\* C6 (as claimed): the run writes to the store once, the final write, so
\* until that write has succeeded, and in every run that fails, the store
\* is as it was before the run.
C6_SingleWrite ==
    /\ \A i \in DOMAIN log : log[i].kind = "sink"
    /\ Len(log) <= 1
    /\ pc # "done" => storage = storage0 /\ log = <<>>

\* C6 (amended): the paths of the result, <output_bucket>/joined_data and
\* <output_bucket>/empty_fallback, are written once at most, by the final
\* write of a run that ends Done; in every run that fails they are as before
\* the run.  The probes are outside this: the run may have overwritten
\* delta-tables/connectivity_test and <output_bucket>/test_write.
C6_SinkWrittenOnce ==
    /\ Cardinality(SinkWrites) <= 1
    /\ \A i \in DOMAIN log :
          log[i].path \in {SinkPath, FallbackPath} =>
              /\ pc = "done"
              /\ i = Len(log)
              /\ log[i].kind = "sink"
              /\ log[i].table = Table("delta", final_df)
    /\ pc # "done" =>
          /\ storage[SinkPath] = storage0[SinkPath]
          /\ storage[FallbackPath] = storage0[FallbackPath]

C6_Witness ==
    /\ pc = "failed"
    /\ raised[1].at = "save"
    /\ \E i \in DOMAIN log : log[i].kind = "test"
    /\ storage[test_output_path(output_bucket)] # storage0[test_output_path(output_bucket)]
    /\ storage[test_path] # storage0[test_path]

\* C7: the fallback is entered only for a lakehouse read that failed because
\* the table is missing; an exception of any other statement is never caught.
C7_FallbackScope ==
    pc = "fallback" => SourceNotFound

\* C8: a save_to_delta call that returns leaves at the path exactly the
\* DataFrame it was given, columns and rows, whatever the path held; a second
\* call with the same DataFrame leaves what the first left.
C8_OverwriteIdempotent ==
    /\ \A i \in SinkWrites :
          /\ log[i].table = Table("delta", final_df)
          /\ storage[log[i].path] = log[i].table
    /\ \A i, j \in SinkWrites :
          log[i].path = log[j].path => log[i].table = log[j].table

C8_Witness ==
    /\ \E i, j \in SinkWrites : i < j /\ log[i].path = log[j].path
    /\ storage0 = Stale
    /\ Size(final_df) = 2

\* When a join is about to run, the three id_employee types are the type of
\* the employees table and what needed no cast is as it was read.
JoinKeyTypes ==
    pc \in {"join1", "join2"} =>
        /\ employee_df = DataFrameOf(sql_employees)
        /\ validation_df.idType = sql_employees.idType
        /\ activity_transformed_df.idType = sql_employees.idType
        /\ sql_validations.idType = sql_employees.idType
              => validation_df = DataFrameOf(sql_validations)

\* The reconciliation returns aggregated activities of the reference type
\* as they are.
PassThrough ==
    (pc = "reconcile" /\ activity_transformed_df.idType = employee_df.idType)
        => activity_transformed_df' = activity_transformed_df

\* C9: when a join is about to run, id_employee has the type of the
\* employees table in the three DataFrames, the employees are as they were
\* read, and so are validations that already had that type; the
\* reconciliation leaves aggregated activities of that type as they are.
C9_JoinKeyTypeInvariant == [](JoinKeyTypes) /\ [][PassThrough]_vars

C9_Witness ==
    /\ pc = "join2"
    /\ sql_validations.idType # sql_employees.idType
    /\ lake.idType # sql_employees.idType
    /\ Size(employee_join_validation_df) = 2
    /\ Size(activity_transformed_df) = 2

\* A step of the run in the order of the stages.
StageOrder ==
    LET from == Stage(pc)
        to == Stage(pc')
    IN  /\ \/ from = to /\ from \notin {"Done", "Failed"}
           \/ <<from, to>> \in {<<"Start", "Reading">>,
                                <<"Reading", "Aggregating">>,
                                <<"Aggregating", "Reconciling">>,
                                <<"Reconciling", "Joining">>,
                                <<"Joining", "Writing">>,
                                <<"Writing", "Done">>,
                                <<"FallbackWriting", "Done">>}
           \/ to = "Failed" /\ from \notin {"Done", "Failed"}
           \/ from = "Reading" /\ to = "FallbackWriting" /\ SourceNotFound'
        /\ to = "Done" =>
              /\ Cardinality(SinkWrites') = 1
              /\ \A i \in SinkWrites' :
                    log'[i].path = IF from = "Writing" THEN SinkPath ELSE FallbackPath

\* C10: the stages of a run follow Start, Reading, Aggregating, Reconciling,
\* Joining, Writing, Done, or Start, Reading, FallbackWriting, Done when the
\* lakehouse read fails because the table is missing, or stop at Failed; Done
\* and Failed are final, and Done is reached with exactly one write of the
\* result, at joined_data or, after the fallback, at empty_fallback.
C10_RunStateMachine == [][StageOrder]_vars

(***************************************************************************)
(* Configuration.                                                          *)
(***************************************************************************)
Required == {"DB_USER", "DB_PASSWORD", "DB_NAME"}

\* A required variable is not set, or set to the empty string.
Missing == \E k \in Required : not(environ[k])

\* The error read_sql_table raises for a missing variable.
ConfigurationError(e) == e.type = "ValueError" /\ e.cause \in Required

ConfigurationErrors == {i \in DOMAIN raised : ConfigurationError(raised[i])}

JdbcReads == {i \in DOMAIN attempts : attempts[i].kind = "jdbc"}

\* The address a JDBC read goes to under the environment of the run.
Address ==
    <<IF environ.DB_HOST = None THEN "business-postgres" ELSE environ.DB_HOST,
      IF environ.DB_PORT = None THEN "5432" ELSE environ.DB_PORT,
      environ.DB_NAME>>

\* DB_HOST and DB_PORT are never the reason of an error, and a read goes to
\* the address they give, "business-postgres" and "5432" when they are unset.
DefaultsApply ==
    /\ \A i \in DOMAIN raised : raised[i].cause \notin {"DB_HOST", "DB_PORT"}
    /\ \A i \in JdbcReads : attempts[i].target = Address
    /\ ~Missing => ConfigurationErrors = {}

\* C11 as stated: a run with DB_USER, DB_PASSWORD or DB_NAME missing ends
\* failed with the configuration error, and the error is raised before the
\* run has tried any read or write (it is the last thing a run does, so the
\* attempts at that point are the attempts before it); an unset DB_HOST or
\* DB_PORT is no error and stands for "business-postgres" / "5432".
C11_ConfigurationFatalEarly ==
    /\ Missing /\ pc \in {"done", "failed"} =>
          /\ pc = "failed"
          /\ raised # <<>>
          /\ ConfigurationError(raised[Len(raised)])
    /\ ConfigurationErrors # {} => attempts = <<>>
    /\ DefaultsApply

\* C11 as the code has it: the variables are looked at when read_sql_table
\* is called, after the buckets were checked, the connectivity probe was
\* written and the activity table was read.  With DB_USER, DB_PASSWORD or
\* DB_NAME missing no JDBC read is ever sent and no relational read succeeds;
\* a run that gets to the read of the employees table raises the error for
\* a missing variable there, nothing intercepts it and the run has failed; an unset DB_HOST or DB_PORT is no error and stands for
\* "business-postgres" / "5432".
C11_ConfigurationChecked ==
    /\ Missing =>
          /\ JdbcReads = {}
          /\ employee_df = NoDF /\ validation_df = NoDF
          /\ activity_df # NoDF /\ pc # "read_employees" =>
                /\ pc = "failed"
                /\ ConfigurationErrors = {Len(raised)}
    /\ \A i \in ConfigurationErrors :
          /\ Missing
          /\ not(environ[raised[i].cause])
          /\ raised[i].at = "read_employees"
          /\ i = Len(raised)
          /\ pc = "failed"
          /\ \E j \in DOMAIN attempts : attempts[j].kind = "delta"
    /\ DefaultsApply

\* A run without DB_HOST and DB_NAME that read the activity table and failed
\* on DB_NAME.
C11_Witness ==
    /\ environ.DB_HOST = None
    /\ not(environ.DB_NAME)
    /\ pc = "failed"
    /\ raised # <<>>
    /\ ConfigurationError(raised[Len(raised)])
    /\ raised[Len(raised)].cause = "DB_NAME"
    /\ activity_df # NoDF
    /\ \E j \in DOMAIN attempts : attempts[j].kind = "write"

\* C12: right after the aggregation every row of the result has
\* count_activity >= 1, the rows of the NULL id_employee included, and the
\* result has exactly one row for each id_employee value of the activity
\* table, NULL being one of them.
C12_CountPositive ==
    pc = "reconcile" =>
        /\ \A a \in DOMAIN activity_transformed_df.rows : a.count_activity >= 1
        /\ Keys(activity_transformed_df) = Keys(activity_df)
        /\ \A g \in Keys(activity_df) :
              BagCardinality(Group(activity_transformed_df, g)) = 1

====
